---- MODULE Spec2Model ----
(***************************************************************************)
(* One run of the Streamlit script VaR.py (evangaul/VaR-Calculator): the   *)
(* widgets are read, the date range is checked, prices are fetched, daily  *)
(* returns are built, the 1-day VaR is computed by the selected method and *)
(* the results and two charts are emitted.  The whole body runs inside one *)
(* try/except that turns any exception into st.error("Error: ...").       *)
(*                                                                         *)
(* Numbers.  The script computes in IEEE doubles.  In the run below a      *)
(* finite double is a fixed-point integer counting 1/Unit (Unit = 10^4), a *)
(* division rounds to the nearest 1/Unit, and the non-finite doubles are   *)
(* values of their own (inf, -inf, NaN) with the IEEE rules for them.      *)
(* Prices are whole numbers.  What doubles do below that resolution, the   *)
(* rounding of every addition included, is modelled bit for bit for lines  *)
(* 59-60 at the end of the module.                                         *)
(*                                                                         *)
(* Streamlit runs the script again on every change of a widget; a run      *)
(* keeps nothing of the run before it but the cache of load_data, and the  *)
(* run modelled here starts with that cache empty.                         *)
(***************************************************************************)
EXTENDS Integers, Sequences, FiniteSets, TLC

VARIABLES
    date_range,        \* value of st.sidebar.date_input: a tuple of dates
    confidence_level,  \* slider value in percent (the script divides by 100)
    investment,        \* slider value in dollars
    method,            \* "Historical" or "Variance-Covariance"
    provider,          \* what yf.download did: "idle", "data", "empty", "failed"
    data,              \* the Close column of the frame load_data returned
    prices,            \* data["Close"]
    returns,           \* prices.pct_change().dropna(): rows [i, r], i the row of prices
    returns_1d,        \* returns.to_numpy().flatten()
    mean, std,         \* set by the Variance-Covariance branch only
    var_percent,
    var_dollar,
    fig,               \* the histogram figure while it is built
    out,               \* what the run has emitted to the page, in order
    pc                 \* the line of VaR.py the run is at

vars == <<date_range, confidence_level, investment, method, provider, data,
          prices, returns, returns_1d, mean, std, var_percent, var_dollar,
          fig, out, pc>>

(***************************************************************************)
(* Bounds of the model.                                                    *)
(***************************************************************************)
MaxPrices == 12        \* longest price series the provider returns
MaxDate == 2           \* dates are 1..MaxDate
MaxEstLen == 11        \* longest return series handed to the estimator alone

Unit == 100 * 100      \* fixed-point unit: 1.0 is Unit
MIN_SAMPLE == 10       \* if len(returns) < 10
NBINS == 50            \* nbins=50
CURVE_POINTS == 100    \* np.linspace(..., 100)

Methods == {"Historical", "Variance-Covariance"}
ConfLevels == {90, 95, 99}         \* of the slider's 90..99
Investments == {1000, 2000}        \* of the slider's 1000..1000000 step 1000
Dates == 1..MaxDate

None == <<>>
Some(x) == <<x>>
IsSome(o) == Len(o) = 1
The(o) == o[1]

(***************************************************************************)
(* Doubles.                                                                *)
(***************************************************************************)
Fin(x) == [k |-> "fin", v |-> x]
NaN == [k |-> "nan", v |-> 0]
Inf(s) == [k |-> "inf", v |-> s]
IsFin(a) == a.k = "fin"
IsNaN(a) == a.k = "nan"

Sign(x) == IF x > 0 THEN 1 ELSE IF x < 0 THEN -1 ELSE 0
Abs(x) == IF x < 0 THEN -x ELSE x

\* a / b for b > 0, rounded to the nearest integer
RoundDiv(a, b) == (a + b \div 2) \div b

\* the double a / b of two whole numbers, in 1/Unit
FloatDiv(a, b) ==
    IF b = 0
    THEN IF a = 0 THEN NaN ELSE Inf(Sign(a))
    ELSE Fin(RoundDiv(a * Sign(b) * Unit, Abs(b)))

ExtNeg(a) ==
    IF IsFin(a) THEN Fin(-a.v)
    ELSE IF IsNaN(a) THEN NaN
    ELSE Inf(-a.v)

ExtAdd(a, b) ==
    IF IsNaN(a) \/ IsNaN(b) THEN NaN
    ELSE IF IsFin(a) /\ IsFin(b) THEN Fin(a.v + b.v)
    ELSE IF IsFin(a) THEN b
    ELSE IF IsFin(b) THEN a
    ELSE IF a.v = b.v THEN a ELSE NaN

ExtSub(a, b) == ExtAdd(a, ExtNeg(b))

\* a * (num / den) for whole numbers num and den > 0
ExtScale(a, num, den) ==
    IF IsNaN(a) THEN NaN
    ELSE IF IsFin(a) THEN Fin(RoundDiv(a.v * num, den))
    ELSE IF num = 0 THEN NaN
    ELSE Inf(a.v * Sign(num))

\* a <= b for doubles other than NaN
ExtLE(a, b) ==
    IF IsFin(a) /\ IsFin(b) THEN a.v <= b.v
    ELSE IF IsFin(a) THEN b.v = 1
    ELSE IF IsFin(b) THEN a.v = -1
    ELSE a.v <= b.v

RECURSIVE SqrtBetween(_, _, _)
SqrtBetween(n, lo, hi) ==
    IF lo >= hi THEN lo
    ELSE LET mid == (lo + hi + 1) \div 2
         IN IF mid * mid <= n THEN SqrtBetween(n, mid, hi)
            ELSE SqrtBetween(n, lo, mid - 1)

\* floor of the square root of n >= 0
ISqrt(n) == SqrtBetween(n, 0, 46340)

(***************************************************************************)
(* The library functions the script calls.                                 *)
(***************************************************************************)
PctChange_ByCurrent(p) ==
    [i \in 1..Len(p) |->
        [i |-> i,
         r |-> IF i = 1 THEN NaN
               ELSE ExtSub(Fin(Unit), FloatDiv(p[i - 1], p[i]))]]

\* Series.pct_change(): data / data.shift(1) - 1, the first row has no
\* predecessor and is NaN.  A row is [i, r]: its index in prices, its value.
PctChange(p) ==
    [i \in 1..Len(p) |->
        [i |-> i,
         r |-> IF i = 1 THEN NaN
               ELSE ExtSub(FloatDiv(p[i], p[i - 1]), Fin(Unit))]]

\* Series.dropna(): the rows whose value is NaN are removed (inf is kept)
IsNaRow(row) == IsNaN(row.r)
DropNa(s) == SelectSeq(s, LAMBDA row : ~IsNaRow(row))

\* Series.to_numpy().flatten(): the values without the index
ToNumpy(s) == [j \in 1..Len(s) |-> s[j].r]

RECURSIVE Insert(_, _)
Insert(x, s) ==
    IF s = <<>> THEN <<x>>
    ELSE IF ExtLE(x, Head(s)) THEN <<x>> \o s
    ELSE <<Head(s)>> \o Insert(x, Tail(s))

Sorted_Not(a) == a

RECURSIVE Sorted(_)
Sorted(a) == IF a = <<>> THEN <<>> ELSE Insert(Head(a), Sorted(Tail(a)))

\* numpy's _lerp(a, b, t) with t = t100 / 100
Lerp(a, b, t100) ==
    LET diff_b_a == ExtSub(b, a)
    IN IF t100 >= 50
       THEN ExtSub(b, ExtScale(diff_b_a, 100 - t100, 100))
       ELSE ExtAdd(a, ExtScale(diff_b_a, t100, 100))

\* np.percentile(a, (1 - c/100) * 100), method "linear": the virtual index is
\* (1 - c/100) * (n - 1), the result interpolates between the two order
\* statistics around it.  a is not empty.  (In doubles (1 - c/100) * 100 is
\* off by a few 1e-16, which moves the result by less than 1e-15.)
Percentile(a, c) ==
    LET n == Len(a)
        arr == Sorted(a)
        pos100 == (100 - c) * (n - 1)
        previous == pos100 \div 100
        next == IF previous + 1 <= n - 1 THEN previous + 1 ELSE n - 1
    IN IF \E j \in 1..n : IsNaN(a[j]) THEN NaN
       ELSE Lerp(arr[previous + 1], arr[next + 1], pos100 % 100)

RECURSIVE ExtSum(_)
ExtSum(a) == IF a = <<>> THEN Fin(0) ELSE ExtAdd(Head(a), ExtSum(Tail(a)))

\* ndarray.mean()
Mean(a) == ExtScale(ExtSum(a), 1, Len(a))

RECURSIVE SumSqDev(_, _)
SumSqDev(a, m) ==
    IF a = <<>> THEN 0
    ELSE (Head(a).v - m) * (Head(a).v - m) + SumSqDev(Tail(a), m)

\* ndarray.std(): sqrt(mean(abs(a - a.mean()) ** 2)), ddof = 0.  A non-finite
\* entry makes a deviation inf - inf or a mean NaN, and the result NaN.
Std(a) ==
    IF \A j \in 1..Len(a) : IsFin(a[j])
    THEN Fin(ISqrt(RoundDiv(SumSqDev(a, Mean(a).v), Len(a))))
    ELSE NaN

\* norm.ppf(1 - c/100) in 1/Unit, to four decimals
NormPpf(c) ==
    CASE c = 90 -> -12816 [] c = 91 -> -13408 [] c = 92 -> -14051
      [] c = 93 -> -14758 [] c = 94 -> -15548 [] c = 95 -> -16449
      [] c = 96 -> -17507 [] c = 97 -> -18808 [] c = 98 -> -20537
      [] c = 99 -> -23263

\* var_percent of the Historical branch
HistoricalVaR(a, c) == Percentile(a, c)

\* var_percent = mean + z_score * std
VarCovVaR(m, s, c) == ExtAdd(m, ExtScale(s, NormPpf(c), Unit))

\* var_dollar = var_percent * investment
VarDollar(vp, inv) == ExtScale(vp, inv, 1)

ShownDollar_Abs(vd) == IF IsFin(vd) THEN Fin(Abs(vd.v)) ELSE vd

\* what the f-string ${-var_dollar:.2f} is given
ShownDollar(vd) == ExtNeg(vd)

RECURSIVE ExtMin(_)
ExtMin(a) ==
    IF Len(a) = 1 THEN a[1]
    ELSE LET m == ExtMin(Tail(a)) IN IF ExtLE(a[1], m) THEN a[1] ELSE m

RECURSIVE ExtMax(_)
ExtMax(a) ==
    IF Len(a) = 1 THEN a[1]
    ELSE LET m == ExtMax(Tail(a)) IN IF ExtLE(m, a[1]) THEN a[1] ELSE m

(***************************************************************************)
(* The page.  An emitted element is [call, text, val].                     *)
(***************************************************************************)
MSG_RANGE == "Please select valid start and end date."
MSG_SAMPLE == "Not enough data points to compute VaR"
MSG_NO_DATA == "Error: Error getting data: No data for the selected stock and date range"
MSG_DOWNLOAD == "Error: Error getting data: <exception of yf.download>"
MSG_CHART == "Error: <exception of a chart call>"

StError(text) == [call |-> "error", text |-> text, val |-> None]
StHeader(text) == [call |-> "header", text |-> text, val |-> None]
StWrite(text, x) == [call |-> "write", text |-> text, val |-> Some(x)]
StPlotlyChart(text) == [call |-> "plotly_chart", text |-> text, val |-> None]

NoFig == [hist |-> None, vline |-> None, curve |-> None]

(***************************************************************************)
(* The data provider.  It answers a request with a frame or fails.  The    *)
(* Close column of a frame is a constant price with up to two adjacent     *)
(* rows that differ; zero and negative prices stand for corrupt rows.      *)
(***************************************************************************)
BasePrices == {4, 5}
OddPrices == {-4, 0, 4, 5}

PriceSeries(n, b, k, v1, v2) ==
    [i \in 1..n |-> IF i = k THEN v1 ELSE IF i = k + 1 THEN v2 ELSE b]

Frames ==
    {PriceSeries(n, b, k, v1, v2) :
        n \in 0..MaxPrices, b \in BasePrices, k \in 1..MaxPrices,
        v1 \in OddPrices, v2 \in OddPrices}

\* a range without a trading day has no rows
FramesFor(start_date, end_date) ==
    IF start_date < end_date THEN Frames ELSE {<<>>}

\* the values st.date_input hands out for a range: up to two dates, in order
DateRanges ==
    {<<>>} \cup {<<d>> : d \in Dates}
    \cup {r \in Dates \X Dates : r[1] <= r[2]}

(***************************************************************************)
(* The run.                                                                *)
(***************************************************************************)
Init ==
    /\ date_range \in DateRanges
    /\ confidence_level \in ConfLevels
    /\ investment \in Investments
    /\ method \in Methods
    /\ provider = "idle"
    /\ data = None
    /\ prices = None
    /\ returns = None
    /\ returns_1d = None
    /\ mean = None
    /\ std = None
    /\ var_percent = None
    /\ var_dollar = None
    /\ fig = NoFig
    /\ out = <<>>
    /\ pc = "L41"

\* lines 41-44: if len(date_range) != 2: st.error(...) else: unpack
CheckDateRange ==
    /\ pc = "L41"
    /\ IF Len(date_range) # 2
       THEN /\ out' = Append(out, StError(MSG_RANGE))
            /\ pc' = "done"
       ELSE /\ out' = out
            /\ pc' = "L45"
    /\ UNCHANGED <<date_range, confidence_level, investment, method, provider,
                   data, prices, returns, returns_1d, mean, std, var_percent,
                   var_dollar, fig>>

\* line 45 with load_data (lines 28-35) and the handler of lines 100-101:
\* yf.download fails, or returns a frame; an empty frame raises ValueError;
\* either exception is re-raised as Exception("Error getting data: ...") and
\* caught by the module's except
LoadData ==
    /\ pc = "L45"
    /\ \/ /\ provider' = "failed"
          /\ data' = data
          /\ out' = Append(out, StError(MSG_DOWNLOAD))
          /\ pc' = "done"
       \/ \E df \in FramesFor(date_range[1], date_range[2]) :
             IF df = <<>>
             THEN /\ provider' = "empty"
                  /\ data' = data
                  /\ out' = Append(out, StError(MSG_NO_DATA))
                  /\ pc' = "done"
             ELSE /\ provider' = "data"
                  /\ data' = Some(df)
                  /\ out' = out
                  /\ pc' = "L46"
    /\ UNCHANGED <<date_range, confidence_level, investment, method, prices,
                   returns, returns_1d, mean, std, var_percent, var_dollar, fig>>

\* lines 46-49: prices = data["Close"]; returns = prices.pct_change().dropna()
BuildReturns ==
    /\ pc = "L46"
    /\ prices' = data
    /\ returns' = Some(DropNa(PctChange(The(data))))
    /\ pc' = "L50"
    /\ UNCHANGED <<date_range, confidence_level, investment, method, provider,
                   data, returns_1d, mean, std, var_percent, var_dollar, fig, out>>

TooFew_OffByOne(r) == Len(r) < MIN_SAMPLE - 1

\* line 50: len(returns) < 10
TooFew(r) == Len(r) < MIN_SAMPLE

\* lines 50-53: if len(returns) < 10: st.error(...) else: returns_1d = ...
CheckSample ==
    /\ pc = "L50"
    /\ IF TooFew(The(returns))
       THEN /\ out' = Append(out, StError(MSG_SAMPLE))
            /\ returns_1d' = returns_1d
            /\ pc' = "done"
       ELSE /\ out' = out
            /\ returns_1d' = Some(ToNumpy(The(returns)))
            /\ pc' = "L56"
    /\ UNCHANGED <<date_range, confidence_level, investment, method, provider,
                   data, prices, returns, mean, std, var_percent, var_dollar, fig>>

\* lines 56-57
ComputeHistorical ==
    /\ pc = "L56"
    /\ method = "Historical"
    /\ var_percent' = Some(HistoricalVaR(The(returns_1d), confidence_level))
    /\ pc' = "L64"
    /\ UNCHANGED <<date_range, confidence_level, investment, method, provider,
                   data, prices, returns, returns_1d, mean, std, var_dollar,
                   fig, out>>

\* lines 58-62
ComputeVarCov ==
    /\ pc = "L56"
    /\ method # "Historical"
    /\ mean' = Some(Mean(The(returns_1d)))
    /\ std' = Some(Std(The(returns_1d)))
    /\ var_percent' = Some(VarCovVaR(The(mean'), The(std'), confidence_level))
    /\ pc' = "L64"
    /\ UNCHANGED <<date_range, confidence_level, investment, method, provider,
                   data, prices, returns, returns_1d, var_dollar, fig, out>>

\* line 64
ComputeDollar ==
    /\ pc = "L64"
    /\ var_dollar' = Some(VarDollar(The(var_percent), investment))
    /\ pc' = "L67"
    /\ UNCHANGED <<date_range, confidence_level, investment, method, provider,
                   data, prices, returns, returns_1d, mean, std, var_percent,
                   fig, out>>

\* lines 67-69
Display ==
    /\ pc = "L67"
    /\ out' = out \o <<StHeader("VaR"),
                       StWrite("VaR (percent)", The(var_percent)),
                       StWrite("VaR (dollar)", ShownDollar(The(var_dollar)))>>
    /\ pc' = "L72"
    /\ UNCHANGED <<date_range, confidence_level, investment, method, provider,
                   data, prices, returns, returns_1d, mean, std, var_percent,
                   var_dollar, fig>>

\* lines 72-84: px.histogram and fig.add_vline; a call into plotly may raise,
\* and the except of lines 100-101 then emits the error
BuildHistogram ==
    /\ pc = "L72"
    /\ \/ /\ fig' = [fig EXCEPT !.hist = Some([x |-> The(returns_1d), nbins |-> NBINS]),
                                !.vline = var_percent]
          /\ out' = out
          /\ pc' = "L86"
       \/ /\ fig' = fig
          /\ out' = Append(out, StError(MSG_CHART))
          /\ pc' = "done"
    /\ UNCHANGED <<date_range, confidence_level, investment, method, provider,
                   data, prices, returns, returns_1d, mean, std, var_percent,
                   var_dollar>>

NormalCurve_Refit(a, m, s) ==
    [mean |-> Fin(0), std |-> Fin(Unit), lo |-> ExtMin(a), hi |-> ExtMax(a),
     n |-> Len(a), points |-> CURVE_POINTS, bins |-> NBINS]

\* the normal curve of lines 87-89: its parameters and its domain
NormalCurve(a, m, s) ==
    [mean |-> m, std |-> s, lo |-> ExtMin(a), hi |-> ExtMax(a),
     n |-> Len(a), points |-> CURVE_POINTS, bins |-> NBINS]

\* lines 85-89: if method == "Variance-Covariance": add the normal curve
AddCurve ==
    /\ pc = "L86"
    /\ IF method = "Variance-Covariance"
       THEN \/ /\ fig' = [fig EXCEPT !.curve =
                            Some(NormalCurve(The(returns_1d), The(mean), The(std)))]
               /\ out' = out
               /\ pc' = "L90"
            \/ /\ fig' = fig
               /\ out' = Append(out, StError(MSG_CHART))
               /\ pc' = "done"
       ELSE /\ fig' = fig
            /\ out' = out
            /\ pc' = "L90"
    /\ UNCHANGED <<date_range, confidence_level, investment, method, provider,
                   data, prices, returns, returns_1d, mean, std, var_percent,
                   var_dollar>>

\* line 90: st.plotly_chart(fig)
ShowHistogram ==
    /\ pc = "L90"
    /\ \/ /\ out' = Append(out, StPlotlyChart("histogram"))
          /\ pc' = "L93"
       \/ /\ out' = Append(out, StError(MSG_CHART))
          /\ pc' = "done"
    /\ UNCHANGED <<date_range, confidence_level, investment, method, provider,
                   data, prices, returns, returns_1d, mean, std, var_percent,
                   var_dollar, fig>>

\* lines 93-98: st.header, px.line over prices, st.plotly_chart
ShowPrices ==
    /\ pc = "L93"
    /\ \/ out' = out \o <<StHeader("Price History"), StPlotlyChart("prices")>>
       \/ out' = out \o <<StHeader("Price History"), StError(MSG_CHART)>>
    /\ pc' = "done"
    /\ UNCHANGED <<date_range, confidence_level, investment, method, provider,
                   data, prices, returns, returns_1d, mean, std, var_percent,
                   var_dollar, fig>>

Next ==
    \/ CheckDateRange
    \/ LoadData
    \/ BuildReturns
    \/ CheckSample
    \/ ComputeHistorical
    \/ ComputeVarCov
    \/ ComputeDollar
    \/ Display
    \/ BuildHistogram
    \/ AddCurve
    \/ ShowHistogram
    \/ ShowPrices

Spec == Init /\ [][Next]_vars

(***************************************************************************)
(* The estimator alone: lines 50-69 applied to a return series that is     *)
(* given, for the properties of the two estimates as functions of the      *)
(* returns.  Returns are whole hundredths.                                 *)
(***************************************************************************)
Hundredths(a) == [j \in 1..Len(a) |-> [i |-> j + 1, r |-> Fin(a[j] * 100)]]

TestReturns == <<-5, -3, -1, 0, 1, 2, 3, 4, 5, 6>>

Ramp(n, start, step) == [j \in 1..n |-> start + step * (j - 1)]

Swap(a, i, j) ==
    [x \in 1..Len(a) |-> IF x = i THEN a[j] ELSE IF x = j THEN a[i] ELSE a[x]]

EstBases ==
    {TestReturns}
    \cup {Ramp(n, start, step) :
            n \in (MIN_SAMPLE - 1)..MaxEstLen, start \in {-5, 0, 3}, step \in {0, 1}}

EstSeries ==
    UNION {{Swap(a, i, j) : i \in 1..Len(a), j \in 1..Len(a)} : a \in EstBases}

InitEst ==
    /\ date_range = <<1, 2>>
    /\ confidence_level \in ConfLevels
    /\ investment \in Investments
    /\ method \in Methods
    /\ provider = "data"
    /\ data = None
    /\ prices = None
    /\ returns \in {Some(Hundredths(a)) : a \in EstSeries}
    /\ returns_1d = None
    /\ mean = None
    /\ std = None
    /\ var_percent = None
    /\ var_dollar = None
    /\ fig = NoFig
    /\ out = <<>>
    /\ pc = "L50"

NextEst ==
    \/ CheckSample
    \/ ComputeHistorical
    \/ ComputeVarCov
    \/ ComputeDollar
    \/ Display

SpecEst == InitEst /\ [][NextEst]_vars

(***************************************************************************)
(* Properties.                                                             *)
(***************************************************************************)
Range(f) == {f[x] : x \in DOMAIN f}
Emitted(call) == {j \in 1..Len(out) : out[j].call = call}
After56 == {"L64", "L67", "L72", "L86", "L90", "L93"}

\* the error kind a message stands for
Kind(text) ==
    IF text = MSG_RANGE THEN "InvalidRange"
    ELSE IF text = MSG_SAMPLE THEN "InsufficientData"
    ELSE "Error"

\* C1: a return series with fewer than 10 entries ends the run in the
\* insufficient-data error, with either method, and no var_percent and no
\* var_dollar is computed; with 10 or more entries the sample-size check
\* emits no such error and the run goes on to the estimate.
C1_SampleSizeCheck ==
    IsSome(returns) =>
        LET n == Len(The(returns))
        IN /\ (n < 10 /\ pc # "L50") =>
                  /\ pc = "done"
                  /\ out = <<StError(MSG_SAMPLE)>>
                  /\ var_percent = None
                  /\ var_dollar = None
                  /\ Emitted("write") = {}
           /\ n >= 10 =>
                  /\ \A j \in 1..Len(out) : Kind(out[j].text) # "InsufficientData"
                  /\ pc # "L50" => IsSome(returns_1d)

C1_Witness ==
    /\ pc = "done"
    /\ IsSome(returns)
    /\ Len(The(returns)) = 9
    /\ method = "Variance-Covariance"
    /\ out = <<StError(MSG_SAMPLE)>>

\* C2: for prices that are all positive, n >= 2 of them, the return series
\* has at most n - 1 entries, its j-th entry belongs to the j-th adjacent
\* pair of prices and equals (p[j+1] - p[j]) / p[j].
C2_ReturnsOfPositivePrices ==
    (IsSome(returns) /\ IsSome(prices)) =>
        LET p == The(prices)
            r == The(returns)
        IN (Len(p) >= 2 /\ \A i \in 1..Len(p) : p[i] > 0) =>
              /\ Len(r) <= Len(p) - 1
              /\ \A j \in 1..Len(r) :
                    /\ r[j].i = j + 1
                    /\ IsFin(r[j].r)
                    /\ r[j].r.v * p[j] = Unit * (p[j + 1] - p[j])

C2_Witness ==
    /\ IsSome(returns)
    /\ IsSome(prices)
    /\ Len(The(prices)) >= 11
    /\ \A i \in 1..Len(The(prices)) : The(prices)[i] > 0
    /\ \E j \in 1..Len(The(returns)) : The(returns)[j].r.v > 0
    /\ \E j \in 1..Len(The(returns)) : The(returns)[j].r.v < 0

\* C3: a non-positive price at row k leaves no return of the pair (k-1, k)
\* and none of the pair (k, k+1) in the return series, no entry of the
\* series is infinite or undefined, and every other return is the return
\* of its own pair of prices.
C3_BadPriceExcluded ==
    (IsSome(returns) /\ IsSome(prices)) =>
        LET p == The(prices)
            r == The(returns)
        IN \A k \in 1..Len(p) :
              p[k] <= 0 =>
                 \A j \in 1..Len(r) :
                    /\ r[j].i # k
                    /\ r[j].i # k + 1
                    /\ IsFin(r[j].r)
                    /\ r[j].r.v * p[r[j].i - 1] = Unit * (p[r[j].i] - p[r[j].i - 1])

\* the k-th smallest entry of a, by counting
OrderStat(a, k) ==
    CHOOSE v \in Range(a) :
        /\ Cardinality({j \in 1..Len(a) : a[j] < v}) < k
        /\ k <= Cardinality({j \in 1..Len(a) : a[j] <= v})

Values(r) == [j \in 1..Len(r) |-> r[j].r.v]

IsTestSeries(a) ==
    /\ Len(a) = Len(TestReturns)
    /\ \A x \in Range(a) :
          Cardinality({j \in 1..Len(a) : a[j] = x})
            = Cardinality({j \in 1..Len(a) : TestReturns[j] * 100 = x})

\* C4: the Historical var_percent is the quantile of the returns at
\* probability 1 - confidence_level by linear interpolation between the two
\* order statistics around the position (1 - confidence_level) * (n - 1); it
\* depends on the values of the series only, not on their order, and for
\* the series -0.05, -0.03, -0.01, 0, 0.01, ..., 0.06 at 90% it is -0.032.
C4_HistoricalQuantile ==
    (method = "Historical" /\ IsSome(var_percent)) =>
        LET a == Values(The(returns))
            n == Len(a)
            pos100 == (100 - confidence_level) * (n - 1)
            k == pos100 \div 100 + 1
            lower == OrderStat(a, k)
            upper == OrderStat(a, IF k + 1 <= n THEN k + 1 ELSE n)
            vp == The(var_percent)
        IN /\ IsFin(vp)
           /\ 100 * (vp.v - lower) = (pos100 % 100) * (upper - lower)
           /\ (IsTestSeries(a) /\ confidence_level = 90) => vp.v * 1000 = -32 * Unit

C4_Witness ==
    /\ method = "Historical"
    /\ confidence_level = 90
    /\ IsSome(var_percent)
    /\ IsTestSeries(Values(The(returns)))
    /\ Values(The(returns))[1] > Values(The(returns))[10]
    /\ The(var_percent) = Fin(-320)

\* C5: the dollar figure the run reports is -var_percent * investment for
\* either sign of var_percent: not negative when var_percent is negative,
\* negative (the signed product, not its magnitude) when var_percent is
\* positive, and so proportional to investment.
C5_DollarFigure ==
    (pc \in {"L72", "L86", "L90", "L93", "done"} /\ IsSome(var_percent)) =>
        /\ \E j \in 1..Len(out) : out[j].text = "VaR (dollar)"
        /\ \A j \in 1..Len(out) :
              (out[j].text = "VaR (dollar)" /\ IsFin(The(var_percent))) =>
                 LET vp == The(var_percent).v
                     shown == The(out[j].val)
                 IN /\ IsFin(shown)
                    /\ shown.v = -(vp * investment)
                    /\ vp < 0 => shown.v > 0
                    /\ vp > 0 => shown.v < 0

C5_Witness ==
    /\ pc = "L72"
    /\ IsFin(The(var_percent))
    /\ The(var_percent).v > 0
    /\ investment = 2000
    /\ out[3] = StWrite("VaR (dollar)", Fin(-(The(var_percent).v * 2000)))

\* C7: when the provider returns an empty price series the run ends in the
\* insufficient-data error, and when the provider call fails it ends in an
\* error of another kind.
C7_EmptyIsInsufficientData ==
    (pc = "done" /\ provider \in {"empty", "failed"}) =>
        /\ out # <<>>
        /\ Kind(out[Len(out)].text) = "InsufficientData" <=> provider = "empty"

\* C8: a run that emits an error has emitted no VaR figure and no chart
\* before it.
C8_NoPartialResult ==
    \A i \in Emitted("error") :
        \A j \in 1..(i - 1) : out[j].call \notin {"write", "plotly_chart"}

\* C9: a date range that is not two dates with the first before the second
\* is rejected with the invalid-range error, and for it no prices are
\* requested and no return or VaR is computed.
ValidRange(dr) == Len(dr) = 2 /\ dr[1] < dr[2]

C9_InvalidRangeRejected ==
    ~ValidRange(date_range) =>
        /\ provider = "idle"
        /\ data = None
        /\ returns = None
        /\ var_percent = None
        /\ pc = "done" => out = <<StError(MSG_RANGE)>>

\* C10: mean and std are set, and the normal curve is added to the
\* histogram, exactly in the Variance-Covariance runs: a Historical run has
\* neither, a Variance-Covariance run has both once it has passed the lines
\* that make them, and the curve carries the mean and std the run computed
\* from its own return series.
C10_CurveParams ==
    /\ IsSome(mean) <=> IsSome(std)
    /\ method = "Historical" => mean = None /\ fig.curve = None
    /\ (method # "Historical" /\ pc \in After56) => IsSome(mean)
    /\ (method # "Historical" /\ pc \in {"L90", "L93"}) => IsSome(fig.curve)
    /\ IsSome(mean) =>
          /\ mean = Some(Mean(ToNumpy(The(returns))))
          /\ std = Some(Std(ToNumpy(The(returns))))
    /\ IsSome(fig.curve) =>
          /\ IsSome(mean)
          /\ The(fig.curve).mean = The(mean)
          /\ The(fig.curve).std = The(std)

C10_Witness ==
    /\ pc = "L90"
    /\ method = "Variance-Covariance"
    /\ IsSome(fig.curve)
    /\ IsFin(The(std))
    /\ The(std).v > 0
    /\ The(fig.curve).std = The(std)

(***************************************************************************)
(* Lines 59-60 in IEEE double arithmetic, for what the fixed-point values  *)
(* above cannot show: the rounding of each addition and of the division in *)
(* returns_1d.mean().  A magnitude is a natural number written in base     *)
(* 2^10, most significant digit first, counting 2^-70; a double is a sign  *)
(* and a magnitude with at most MANT_DIG significant bits.  The entries of *)
(* one series share their sign, so a sum adds magnitudes.                  *)
(***************************************************************************)
MANT_DIG == 53          \* significant bits of a float64
MaxMilli == 60          \* entries are k/1000 for k in 1..MaxMilli, either sign
Base == 2 ^ 10
FracDigits == 3 + 4     \* the unit is Base^-FracDigits

Zeros(k) == [j \in 1..k |-> 0]
Front(x) == SubSeq(x, 1, Len(x) - 1)
LastDigit(x) == IF x = <<>> THEN 0 ELSE x[Len(x)]

RECURSIVE AddCarry(_, _, _)
AddCarry(x, y, c) ==
    IF x = <<>> /\ y = <<>>
    THEN IF c = 1 THEN <<1>> ELSE <<>>
    ELSE LET t == LastDigit(x) + LastDigit(y) + c
         IN Append(AddCarry(Front(x), Front(y), t \div Base), t % Base)

RECURSIVE BitLenOf(_)
BitLenOf(n) == IF n = 0 THEN 0 ELSE 1 + BitLenOf(n \div 2)

\* the number of significant bits of x
BitLen(x) == IF x = <<>> THEN 0 ELSE 10 * (Len(x) - 1) + BitLenOf(x[1])

\* bit pos of x, bit 0 the least significant
BitAt(x, pos) == (x[Len(x) - (pos \div 10)] \div (2 ^ (pos % 10))) % 2

\* x without its bits below pos
ClearBelow(x, pos) ==
    [j \in 1..Len(x) |->
        IF Len(x) - j < pos \div 10 THEN 0
        ELSE IF Len(x) - j = pos \div 10
             THEN x[j] - (x[j] % (2 ^ (pos % 10)))
             ELSE x[j]]

\* x rounded to MANT_DIG significant bits, to nearest, ties to even; sticky
\* says that the exact value has a non-zero part below the last bit of x
RoundNearestEven(x, sticky) ==
    IF BitLen(x) <= MANT_DIG THEN x
    ELSE LET drop == BitLen(x) - MANT_DIG
             kept == ClearBelow(x, drop)
             rest == ClearBelow(x, drop - 1) # x
             up == BitAt(x, drop - 1) = 1
                     /\ (rest \/ sticky \/ BitAt(x, drop) = 1)
         IN IF up
            THEN AddCarry(kept, <<2 ^ (drop % 10)>> \o Zeros(drop \div 10), 0)
            ELSE kept

\* the quotient and the remainder of x by a small divisor d
RECURSIVE DivSmall(_, _)
DivSmall(x, d) ==
    IF x = <<>> THEN [q |-> <<>>, r |-> 0]
    ELSE LET h == DivSmall(Front(x), d)
             t == Base * h.r + x[Len(x)]
         IN [q |-> IF h.q = <<>> /\ t < d THEN <<>> ELSE Append(h.q, t \div d),
             r |-> t % d]

F64(neg, mag) == [k |-> "f64", neg |-> neg, mag |-> mag]

\* the double a literal k/1000 denotes
Milli(neg, k) ==
    LET h == DivSmall(<<k>> \o Zeros(FracDigits), 1000)
    IN F64(neg, RoundNearestEven(h.q, h.r # 0))

\* x + y for doubles of one sign
FAdd(x, y) == F64(x.neg, RoundNearestEven(AddCarry(x.mag, y.mag, 0), FALSE))

\* x / n for a count n
FDivCount(x, n) ==
    LET h == DivSmall(x.mag, n)
    IN F64(x.neg, RoundNearestEven(h.q, h.r # 0))

RECURSIVE SumFrom(_, _, _)
SumFrom(res, a, i) ==
    IF i > Len(a) THEN res ELSE SumFrom(FAdd(res, a[i]), a, i + 1)

\* numpy's pairwise sum of a block of 8 to 128 doubles: eight running sums
\* over the rows of eight, added as a tree, then the rest one by one
RECURSIVE Accumulate(_, _, _, _)
Accumulate(r, a, i, stop) ==
    IF i > stop THEN r
    ELSE Accumulate([j \in 1..8 |-> FAdd(r[j], a[i + j - 1])], a, i + 8, stop)

PairwiseSum(a) ==
    LET n == Len(a)
        r == Accumulate([j \in 1..8 |-> a[j]], a, 9, n - (n % 8) - 7)
        res == FAdd(FAdd(FAdd(r[1], r[2]), FAdd(r[3], r[4])),
                    FAdd(FAdd(r[5], r[6]), FAdd(r[7], r[8])))
    IN SumFrom(res, a, n - (n % 8) + 1)

\* np.add.reduce: the first entry plus the pairwise sum of the others
Sum64(a) == FAdd(a[1], PairwiseSum(Tail(a)))

\* returns_1d.mean() of 9 to 129 doubles
Mean64(a) == FDivCount(Sum64(a), Len(a))

\* returns_1d.std(): zero when every entry equals the mean, else the root
\* of a positive mean of squares, a positive double
Std64(a) ==
    IF \A j \in 1..Len(a) : a[j] = Mean64(a)
    THEN F64(FALSE, <<>>)
    ELSE [k |-> "f64 > 0", neg |-> FALSE, mag |-> <<>>]

InitIEEE ==
    /\ date_range = <<1, 2>>
    /\ confidence_level \in ConfLevels
    /\ investment \in Investments
    /\ method = "Variance-Covariance"
    /\ provider = "data"
    /\ data = None
    /\ prices = None
    /\ returns = None
    /\ \E n \in MIN_SAMPLE..MaxEstLen, k \in 1..MaxMilli, neg \in BOOLEAN :
          returns_1d = Some([j \in 1..n |-> Milli(neg, k)])
    /\ mean = None
    /\ std = None
    /\ var_percent = None
    /\ var_dollar = None
    /\ fig = NoFig
    /\ out = <<>>
    /\ pc = "L59"

\* line 59: mean = returns_1d.mean()
ComputeMean ==
    /\ pc = "L59"
    /\ mean' = Some(Mean64(The(returns_1d)))
    /\ pc' = "L60"
    /\ UNCHANGED <<date_range, confidence_level, investment, method, provider,
                   data, prices, returns, returns_1d, std, var_percent,
                   var_dollar, fig, out>>

\* line 60: std = returns_1d.std()
ComputeStd ==
    /\ pc = "L60"
    /\ std' = Some(Std64(The(returns_1d)))
    /\ pc' = "L61"
    /\ UNCHANGED <<date_range, confidence_level, investment, method, provider,
                   data, prices, returns, returns_1d, mean, var_percent,
                   var_dollar, fig, out>>

NextIEEE ==
    \/ ComputeMean
    \/ ComputeStd

SpecIEEE == InitIEEE /\ [][NextIEEE]_vars

====
